---- MODULE Spec2Model ----
(***************************************************************************)
(* nature-quest: the progress ledger (apps/progress/services.py) and the   *)
(* challenge submission verification pipeline                              *)
(* (nature-quest-role-D/challengeverification).                            *)
(*                                                                         *)
(* Tables are sets (or bags) of rows.  Each handler is one action; the     *)
(* concurrent specification SpecConc splits update_user_progress into the  *)
(* database statements it issues.                                          *)
(***************************************************************************)
EXTENDS Integers, Sequences, FiniteSets, Bags, TLC

VARIABLES
    userProfiles,        \* table UserProfile (committed rows)
    pointsTransactions,  \* table PointsTransaction (committed rows, a bag)
    userBadges,          \* table UserBadge (committed rows)
    result,              \* what the last update_user_progress call returned
    pc,                  \* SpecConc: position of each worker inside its call
    call,                \* SpecConc: arguments, in-memory profile, pending writes
    rowLock,             \* SpecConc: worker holding the profile row's write lock
    done,                \* SpecConc: calls each worker has completed
    attempts,            \* table ChallengeAttempt, indexed by id
    photoAnalysis,       \* table PhotoAnalysis, keyed by attempt id
    locationVerification,\* table LocationVerification, keyed by attempt id
    fraudDetection,      \* table FraudDetection, keyed by attempt id
    verificationMetrics, \* table VerificationMetrics, keyed by attempt id
    rewardLog,           \* bag of attempt ids: runs of _award_completion_rewards
    uniqueTogether,      \* whether unique_together (user, challenge) is in force
    response,            \* HTTP status of the last view call
    now,                 \* clock (minutes), read by timezone.now()
    rolledBack,          \* tables the last create had written when it rolled back
    imageHashCache,      \* image_hash_cache of a long-lived FraudDetectionService
    located,             \* arguments and result of the last verify_location call
    crashed,             \* (user, challenge) pairs whose create died mid-pipeline
    questLogs,           \* table QuestLog (apps/quests), indexed by id
    challengeLogs,       \* table ChallengeLog: (user, challenge) pairs
    profilePoints,       \* UserProfile.points (apps/users) of each user
    task                 \* each worker's update_quest_progress task

ledgerVars == <<userProfiles, pointsTransactions, userBadges, result>>
concVars   == <<pc, call, rowLock, done>>
questVars == <<questLogs, challengeLogs, profilePoints, task>>
serviceVars == <<located, crashed, questVars>>
verifyVars == <<attempts, photoAnalysis, locationVerification, fraudDetection,
                verificationMetrics, rewardLog, uniqueTogether, response, now,
                rolledBack, imageHashCache, serviceVars>>
vars == <<userProfiles, pointsTransactions, userBadges, result,
          pc, call, rowLock, done,
          attempts, photoAnalysis, locationVerification, fraudDetection,
          verificationMetrics, rewardLog, uniqueTogether, response, now,
          rolledBack, imageHashCache, located, crashed,
          questLogs, challengeLogs, profilePoints, task>>

----------------------------------------------------------------------------
(* Catalogs: seed_levels_and_badges.py                                     *)

\* levels_data: points_required by level_number 1..12
LevelPoints ==
    <<500, 1200, 2000, 3000, 4200, 5600, 7200, 9000, 11000, 13500, 16500, 20000>>

LevelNumbers == DOMAIN LevelPoints

\* badges_data, in ascending points_required (the order_by of the sweep)
BadgeOrder ==
    <<"rat", "ox", "tiger", "rabbit", "dragon", "snake", "horse", "goat",
      "monkey", "rooster", "dog", "pig", "cat">>

BadgePoints ==
    [b \in {BadgeOrder[i] : i \in DOMAIN BadgeOrder} |->
        CASE b = "rat"     -> 250
          [] b = "ox"      -> 500
          [] b = "tiger"   -> 750
          [] b = "rabbit"  -> 1000
          [] b = "dragon"  -> 1250
          [] b = "snake"   -> 1500
          [] b = "horse"   -> 1750
          [] b = "goat"    -> 2000
          [] b = "monkey"  -> 2250
          [] b = "rooster" -> 2500
          [] b = "dog"     -> 2750
          [] b = "pig"     -> 3000
          [] b = "cat"     -> 5000]

Badges == DOMAIN BadgePoints

IsSpecial(b) == b = "cat"

RegularBadges == {b \in Badges : ~IsSpecial(b)}

\* auth users: the ids User.objects.get finds
Users == {"u1"}

\* an id User.objects.get does not find
UnknownUsers == {"ghost"}

----------------------------------------------------------------------------
(* Rows                                                                    *)

\* UserProfile field defaults (current_level 0 is NULL)
NewProfile(u) ==
    [user |-> u, total_points |-> 0, current_level |-> 0,
     challenges_completed |-> 0, quizzes_completed |-> 0]

HasProfile(profiles, u) == \E r \in profiles : r.user = u

ProfileOf(profiles, u) == CHOOSE r \in profiles : r.user = u

\* UserProfile.objects.get_or_create(user=user)
GetOrCreate(profiles, u) ==
    IF HasProfile(profiles, u) THEN ProfileOf(profiles, u) ELSE NewProfile(u)

\* profile.save(): writes every field of the in-memory object to the row
SaveProfile(profiles, row) ==
    {r \in profiles : r.user # row.user} \cup {row}

\* PointsTransaction.objects.create(...)
InsertTx(txs, u, kind, points) ==
    txs (+) SetToBag({[user |-> u, transaction_type |-> kind, points |-> points]})

RECURSIVE SumOver(_, _)
SumOver(B, S) ==
    IF S = {} THEN 0
    ELSE LET r == CHOOSE x \in S : TRUE
         IN  B[r] * r.points + SumOver(B, S \ {r})

\* sum(PointsTransaction.points) over the rows of user u
SumPoints(txs, u) == SumOver(txs, {r \in DOMAIN txs : r.user = u})

\* badge ids of user.badges
OwnedBadges(badges, u) == {r.badge : r \in {x \in badges : x.user = u}}

----------------------------------------------------------------------------
(* ProgressService._check_achievements, on a view s of the database:       *)
(*   s.profile  the in-memory UserProfile object of the call               *)
(*   s.badges   the UserBadge rows the call sees                           *)
(*   s.txs      the PointsTransaction rows the call sees                   *)

\* badges_available without the exclude(id__in=user.badges...) (lines 89-90)
BadgesAvailableIncludingOwned(current_points, owned) ==
    SelectSeq(BadgeOrder, LAMBDA b : BadgePoints[b] <= current_points)

\* badges_available: points_required <= current_points, not owned, ascending.
\* The queryset is evaluated once, when the for loop starts.
BadgesAvailable(current_points, owned) ==
    SelectSeq(BadgeOrder,
              LAMBDA b : BadgePoints[b] <= current_points /\ b \notin owned)

\* _check_special_badge_eligibility without the level gate (lines 169-170)
EligibilityWithoutLevelGate(s, u) ==
    LET regular_badges_count ==
            Cardinality({r \in s.badges : r.user = u /\ ~IsSpecial(r.badge)})
    IN  /\ regular_badges_count >= 12
        /\ s.profile.challenges_completed >= 20

\* _check_special_badge_eligibility(user, profile)
CheckSpecialBadgeEligibility(s, u) ==
    LET regular_badges_count ==
            Cardinality({r \in s.badges : r.user = u /\ ~IsSpecial(r.badge)})
    IN  /\ regular_badges_count >= 12
        /\ s.profile.current_level # 0
        /\ s.profile.current_level >= 10
        /\ s.profile.challenges_completed >= 20

\* AwardBadge without its PointsTransaction.objects.create (lines 117-122)
AwardBadgeNoTx(s, u, b, current_points) ==
    LET bonus_points == 50
    IN  [s EXCEPT
            !.badges = @ \cup {[user |-> u, badge |-> b,
                                points_when_earned |-> current_points]},
            !.profile.total_points = @ + bonus_points]

\* body of the for loop for one badge that is not skipped: the UserBadge
\* row, the +50 bonus on the in-memory profile, the badge_earned transaction
AwardBadge(s, u, b, current_points) ==
    LET bonus_points == 50
    IN  [s EXCEPT
            !.badges = @ \cup {[user |-> u, badge |-> b,
                                points_when_earned |-> current_points]},
            !.profile.total_points = @ + bonus_points,
            !.txs = InsertTx(@, u, "badge_earned", bonus_points)]

\* the for loop over badges_available, from position i
RECURSIVE BadgeLoop(_, _, _, _, _)
BadgeLoop(s, u, avail, i, current_points) ==
    IF i > Len(avail) THEN s
    ELSE IF IsSpecial(avail[i]) /\ ~CheckSpecialBadgeEligibility(s, u)
         THEN BadgeLoop(s, u, avail, i + 1, current_points)
         ELSE BadgeLoop(AwardBadge(s, u, avail[i], current_points),
                        u, avail, i + 1, current_points)

\* Level.objects.filter(points_required__lte=total).order_by("-level_number")
\* .first(); 0 when no level qualifies
HighestLevel(total) ==
    LET q == {n \in LevelNumbers : LevelPoints[n] <= total}
    IN  IF q = {} THEN 0 ELSE CHOOSE n \in q : \A m \in q : m <= n

\* the level-up block: new level, level_number * 100 bonus, level_up row
CheckLevelUp(s, u) ==
    LET old_level == s.profile.current_level
        new_level == HighestLevel(s.profile.total_points)
        level_bonus == new_level * 100
    IN  IF new_level # 0 /\ (old_level = 0 \/ new_level > old_level)
        THEN [s EXCEPT
                !.profile.current_level = new_level,
                !.profile.total_points = @ + level_bonus,
                !.txs = InsertTx(@, u, "level_up", level_bonus)]
        ELSE s

\* _check_achievements(user, profile, old_points), up to its profile.save()
CheckAchievements(s, u) ==
    LET current_points == s.profile.total_points
        avail == BadgesAvailable(current_points, OwnedBadges(s.badges, u))
    IN  CheckLevelUp(BadgeLoop(s, u, avail, 1, current_points), u)

\* lines 35-42: add the points, increment the counters (in memory)
AddPoints(p, points_to_add, increment_challenges, increment_quizzes) ==
    [p EXCEPT
        !.total_points = @ + points_to_add,
        !.challenges_completed = IF increment_challenges THEN @ + 1 ELSE @,
        !.quizzes_completed = IF increment_quizzes THEN @ + 1 ELSE @]

Success(total) ==
    [success |-> TRUE, error |-> "", new_total_points |-> total]

Failure(msg) ==
    [success |-> FALSE, error |-> msg, new_total_points |-> 0]

\* update_user_progress for an existing user, run alone: the whole atomic
\* block commits at once
UpdateUserProgress(u, points_to_add, kind, increment_challenges, increment_quizzes) ==
    /\ u \in Users
    /\ LET p1 == AddPoints(GetOrCreate(userProfiles, u), points_to_add,
                           increment_challenges, increment_quizzes)
           s1 == [profile |-> p1,
                  badges  |-> userBadges,
                  txs     |-> InsertTx(pointsTransactions, u, kind, points_to_add)]
           s2 == CheckAchievements(s1, u)
       IN  /\ userProfiles' = SaveProfile(userProfiles, s2.profile)
           /\ userBadges' = s2.badges
           /\ pointsTransactions' = s2.txs
           /\ result' = Success(s2.profile.total_points)

\* an unknown user id answered with a failure, a profile row left behind
UpdateUnknownUserCreatingProfile(u) ==
    /\ u \in UnknownUsers
    /\ result' = Failure("User not found")
    /\ userProfiles' = SaveProfile(userProfiles, NewProfile(u))
    /\ UNCHANGED <<pointsTransactions, userBadges>>

\* update_user_progress when User.objects.get raises User.DoesNotExist
UpdateUnknownUser(u) ==
    /\ u \in UnknownUsers
    /\ result' = Failure("User not found")
    /\ UNCHANGED <<userProfiles, pointsTransactions, userBadges>>


----------------------------------------------------------------------------
(* Initial state: empty tables, after migrations and the catalog seed      *)

Workers == {1, 2}

NoCall ==
    [user |-> "", points_to_add |-> 0, kind |-> "",
     increment_challenges |-> FALSE, increment_quizzes |-> FALSE,
     profile |-> NewProfile(""), badges |-> {}, txs |-> EmptyBag]

InitLedger ==
    /\ userProfiles = {}
    /\ pointsTransactions = EmptyBag
    /\ userBadges = {}
    /\ result = Failure("")

InitConc ==
    /\ pc = [w \in Workers |-> "idle"]
    /\ call = [w \in Workers |-> NoCall]
    /\ rowLock = 0
    /\ done = [w \in Workers |-> 0]

InitVerify ==
    /\ attempts = <<>>
    /\ photoAnalysis = <<>>
    /\ locationVerification = <<>>
    /\ fraudDetection = <<>>
    /\ verificationMetrics = <<>>
    /\ rewardLog = EmptyBag
    /\ response = 0
    /\ now = 0
    /\ rolledBack = {}
    /\ imageHashCache = {}
    /\ located = <<>>
    /\ crashed = {}

\* a worker that runs no update_quest_progress task
IdleTask == [pc |-> "idle", retries |-> 0, quest_log_id |-> 0,
             in_progress_quests |-> <<>>, locked |-> 0]

\* no quest has been started
NoQuests ==
    /\ questLogs = <<>>
    /\ challengeLogs = {}
    /\ profilePoints = [u \in Users |-> 0]
    /\ task = [w \in Workers |-> IdleTask]

Init ==
    /\ InitLedger
    /\ InitConc
    /\ InitVerify
    /\ uniqueTogether = FALSE
    /\ NoQuests

----------------------------------------------------------------------------
(* Spec: update_user_progress calls executed one at a time                 *)

\* bound: calls made per behaviour
MaxCalls == 3

\* points_to_add values tried (IntegerField(min_value=0))
Deltas == {0, 450, 950, 5000}

\* transaction_type values tried (PointsTransaction.TRANSACTION_TYPES)
Kinds == {"challenge_completion", "quiz_completion"}

\* rows written by line 47, one per call
CallRows(txs) ==
    LET rows == {r \in DOMAIN txs : r.transaction_type \in Kinds}
    IN  BagCardinality([r \in rows |-> txs[r]])

Update ==
    /\ CallRows(pointsTransactions) < MaxCalls
    /\ \E u \in Users, d \in Deltas, k \in Kinds, ic \in BOOLEAN, iq \in BOOLEAN :
          UpdateUserProgress(u, d, k, ic, iq)
    /\ UNCHANGED <<concVars, verifyVars>>

UpdateUnknown ==
    /\ \E u \in UnknownUsers : UpdateUnknownUser(u)
    /\ UNCHANGED <<concVars, verifyVars>>

Next == Update \/ UpdateUnknown

Spec == Init /\ [][Next]_vars


----------------------------------------------------------------------------
(* Claims on the ledger, calls run one at a time (Spec)                    *)

\* C1: ledger conservation.  For every user, the profile's total_points
\* equals the sum of the points of that user's PointsTransaction rows (badge
\* and level-up bonuses included); a user without a profile has no rows.
LedgerConservation ==
    \A u \in Users :
        IF HasProfile(userProfiles, u)
        THEN ProfileOf(userProfiles, u).total_points = SumPoints(pointsTransactions, u)
        ELSE \A r \in DOMAIN pointsTransactions : r.user # u

\* C1 witness: a call has granted badge bonuses and a level-up bonus, and the
\* total is the sum of the rows
LedgerConservationWitness ==
    \E u \in Users :
        /\ HasProfile(userProfiles, u)
        /\ \E r \in DOMAIN pointsTransactions :
              r.user = u /\ r.transaction_type = "badge_earned"
        /\ \E r \in DOMAIN pointsTransactions :
              r.user = u /\ r.transaction_type = "level_up"
        /\ ProfileOf(userProfiles, u).total_points > 0
        /\ ProfileOf(userProfiles, u).total_points = SumPoints(pointsTransactions, u)

\* C7: after a successful call no regular badge whose points_required is
\* within the user's final total_points is left unawarded.
SweepReachesFixedPoint ==
    \A u \in Users :
        HasProfile(userProfiles, u) =>
            \A b \in RegularBadges :
                BadgePoints[b] <= ProfileOf(userProfiles, u).total_points
                    => b \in OwnedBadges(userBadges, u)

\* C8: after a successful call current_level is the highest level whose
\* points_required is within the total as it stands after all bonuses.
LevelIsHighestForFinalTotal ==
    \A u \in Users :
        HasProfile(userProfiles, u) =>
            ProfileOf(userProfiles, u).current_level
                = HighestLevel(ProfileOf(userProfiles, u).total_points)


----------------------------------------------------------------------------
(* SpecCat: a long run of reward events for one user, enough completed     *)
(* challenges and points to meet the gates of the special badge            *)

\* bound: challenges_completed is not driven beyond this
MaxChallenges == 21

\* bound: no event is issued that would lift the total over this
MaxPointsCat == 25000

\* points_to_add values tried in the long run
CatDeltas == {0, 2600, 7000}

\* a challenge completion: increment_challenges = True
CompleteChallenge ==
    /\ \E u \in Users, d \in CatDeltas :
          /\ GetOrCreate(userProfiles, u).challenges_completed < MaxChallenges
          /\ GetOrCreate(userProfiles, u).total_points + d <= MaxPointsCat
          /\ UpdateUserProgress(u, d, "challenge_completion", TRUE, FALSE)
    /\ UNCHANGED <<concVars, verifyVars>>

\* a reward that increments no counter
SpecialEvent ==
    /\ \E u \in Users, d \in CatDeltas \ {0} :
          /\ GetOrCreate(userProfiles, u).total_points + d <= MaxPointsCat
          /\ UpdateUserProgress(u, d, "special_event", FALSE, FALSE)
    /\ UNCHANGED <<concVars, verifyVars>>

NextCat == CompleteChallenge \/ SpecialEvent

SpecCat == Init /\ [][NextCat]_vars

\* the gates of the special badge other than its points threshold
CatGates(profiles, badges, u) ==
    /\ HasProfile(profiles, u)
    /\ RegularBadges \subseteq OwnedBadges(badges, u)
    /\ ProfileOf(profiles, u).current_level >= 10
    /\ ProfileOf(profiles, u).challenges_completed >= 20

\* C9: the special badge is awarded only when, at the moment of the award,
\* the user owns all 12 regular badges, the profile's current_level (as the
\* sweep reads it) is >= 10, challenges_completed (after the call's
\* increment) is >= 20, and the total the sweep started from reaches the
\* badge's points_required.
CatAwardIsGated ==
    [][\A u \in Users :
          ("cat" \notin OwnedBadges(userBadges, u) /\ "cat" \in OwnedBadges(userBadges', u))
          => /\ HasProfile(userProfiles, u)
             /\ ProfileOf(userProfiles, u).current_level >= 10
             /\ ProfileOf(userProfiles', u).challenges_completed >= 20
             /\ Cardinality(OwnedBadges(userBadges', u) \cap RegularBadges) = 12
             /\ \A r \in userBadges' :
                   (r.user = u /\ r.badge = "cat")
                       => r.points_when_earned >= BadgePoints["cat"]
      ]_vars

\* C9 witness: the special badge has been awarded
CatAwarded == \E u \in Users : "cat" \in OwnedBadges(userBadges, u)

\* C10: for a user whose total already reaches the special badge's
\* threshold, the event after which all the other gates hold awards the
\* badge itself.
CatAwardResumesInSameEvent ==
    [][\A u \in Users :
          ( /\ HasProfile(userProfiles, u)
            /\ ProfileOf(userProfiles, u).total_points >= BadgePoints["cat"]
            /\ "cat" \notin OwnedBadges(userBadges, u)
            /\ ~CatGates(userProfiles, userBadges, u)
            /\ pointsTransactions' # pointsTransactions
            /\ CatGates(userProfiles', userBadges', u) )
          => "cat" \in OwnedBadges(userBadges', u)
      ]_vars


----------------------------------------------------------------------------
(* SpecConc: two workers run update_user_progress for the same user at the *)
(* same time.  Each call is one transaction.atomic() block issuing plain   *)
(* SELECT / UPDATE / INSERT statements (no select_for_update, no retry):   *)
(* a statement sees the committed rows and the call's own writes, an       *)
(* UPDATE or INSERT of the profile row takes the row's write lock, which   *)
(* is held until the block commits.                                        *)

\* bound: calls each worker makes
MaxConcCalls == 2

\* points_to_add values tried by the racing calls
ConcDeltas == {75, 250}

\* worker 1 rewards quiz passes, worker 2 challenge completions
KindOf(w) == IF w = 1 THEN "quiz_completion" ELSE "challenge_completion"

\* lines 30-32: enter the atomic block, User.objects.get, get_or_create.
\* A missing profile row is inserted, which waits while another
\* transaction's uncommitted insert of that row is pending.
Begin(w) ==
    /\ pc[w] = "idle"
    /\ done[w] < MaxConcCalls
    /\ \E u \in Users, d \in ConcDeltas :
          /\ HasProfile(userProfiles, u) \/ rowLock = 0
          /\ rowLock' = IF HasProfile(userProfiles, u) THEN rowLock ELSE w
          /\ call' = [call EXCEPT ![w] =
                [user |-> u, points_to_add |-> d, kind |-> KindOf(w),
                 increment_challenges |-> (w = 2), increment_quizzes |-> (w = 1),
                 profile |-> GetOrCreate(userProfiles, u),
                 badges |-> {}, txs |-> EmptyBag]]
    /\ pc' = [pc EXCEPT ![w] = "loaded"]
    /\ UNCHANGED <<ledgerVars, done, verifyVars>>

\* lines 35-44: add the points in memory, profile.save()
Save(w) ==
    /\ pc[w] = "loaded"
    /\ rowLock \in {0, w}
    /\ rowLock' = w
    /\ call' = [call EXCEPT ![w].profile =
                   AddPoints(@, call[w].points_to_add,
                             call[w].increment_challenges, call[w].increment_quizzes)]
    /\ pc' = [pc EXCEPT ![w] = "saved"]
    /\ UNCHANGED <<ledgerVars, done, verifyVars>>

\* lines 47-54: PointsTransaction.objects.create
InsertTransaction(w) ==
    /\ pc[w] = "saved"
    /\ call' = [call EXCEPT ![w].txs =
                   InsertTx(@, call[w].user, call[w].kind, call[w].points_to_add)]
    /\ pc' = [pc EXCEPT ![w] = "inserted"]
    /\ UNCHANGED <<ledgerVars, rowLock, done, verifyVars>>

\* lines 57-59: _check_achievements on the in-memory profile, reading the
\* committed UserBadge rows and the call's own; ends with profile.save()
Achievements(w) ==
    /\ pc[w] = "inserted"
    /\ LET s1 == [profile |-> call[w].profile,
                  badges  |-> userBadges \cup call[w].badges,
                  txs     |-> call[w].txs]
           s2 == CheckAchievements(s1, call[w].user)
       IN  call' = [call EXCEPT ![w].profile = s2.profile,
                                ![w].badges = s2.badges \ userBadges,
                                ![w].txs = s2.txs]
    /\ pc' = [pc EXCEPT ![w] = "checked"]
    /\ UNCHANGED <<ledgerVars, rowLock, done, verifyVars>>

\* leaving the atomic block: the call's writes commit, the lock is released,
\* lines 65-69 return success
Commit(w) ==
    /\ pc[w] = "checked"
    /\ userProfiles' = SaveProfile(userProfiles, call[w].profile)
    /\ userBadges' = userBadges \cup call[w].badges
    /\ pointsTransactions' = pointsTransactions (+) call[w].txs
    /\ result' = Success(call[w].profile.total_points)
    /\ rowLock' = 0
    /\ done' = [done EXCEPT ![w] = @ + 1]
    /\ call' = [call EXCEPT ![w] = NoCall]
    /\ pc' = [pc EXCEPT ![w] = "idle"]
    /\ UNCHANGED verifyVars

NextConc ==
    \E w \in Workers :
        Begin(w) \/ Save(w) \/ InsertTransaction(w) \/ Achievements(w) \/ Commit(w)

SpecConc == Init /\ [][NextConc]_vars

\* C2: no interleaving of two calls loses an update.  When no call is in
\* flight (every call has returned success), each profile's total_points
\* equals the sum of the user's PointsTransaction rows.
NoLostUpdate ==
    (\A w \in Workers : pc[w] = "idle") => LedgerConservation


----------------------------------------------------------------------------
(* Challenge submission verification: challengeverification/services.py    *)
(* Scores are in tenths (0.6 is 6); distances are in meters.               *)

\* the Challenge catalog rows used (created by admin tooling)
Challenge ==
    [c \in {"c1", "c2", "c3"} |->
        IF c = "c1"
        THEN [points_reward |-> 100, verification_radius |-> 500,
              required_elements |-> {}, is_active |-> TRUE]
        ELSE [points_reward |-> 250, verification_radius |-> 500,
              required_elements |-> {"water"}, is_active |-> c = "c2"]]

Challenges == DOMAIN Challenge

\* submitted images, by what the analysis reads from them
Photo ==
    [f \in {"good", "blurry"} |->
        [readable |-> TRUE,
         quality_score |-> IF f = "good" THEN 8 ELSE 5,
         has_timestamp |-> TRUE,
         age_hours |-> 1,
         detected |-> {"vegetation", "water_or_sky"}]]

Photos == DOMAIN Photo

\* replies of the place index to the nearby search
PlaceReply ==
    [r \in {"near", "far", "down", "edge", "beyond", "unmatched", "empty"} |->
        CASE r = "near" -> [ok |-> TRUE, places |-> TRUE, distance |-> 50, type_match |-> TRUE]
          [] r = "far"  -> [ok |-> TRUE, places |-> TRUE, distance |-> 600, type_match |-> TRUE]
          [] r = "down" -> [ok |-> FALSE, places |-> FALSE, distance |-> 0, type_match |-> FALSE]
          [] r = "edge" -> [ok |-> TRUE, places |-> TRUE, distance |-> 500, type_match |-> TRUE]
          [] r = "beyond" -> [ok |-> TRUE, places |-> TRUE, distance |-> 501, type_match |-> TRUE]
          [] r = "unmatched" -> [ok |-> TRUE, places |-> TRUE, distance |-> 50, type_match |-> FALSE]
          [] r = "empty" -> [ok |-> TRUE, places |-> FALSE, distance |-> 0, type_match |-> FALSE]]

PlaceReplies == DOMAIN PlaceReply

\* _validate_coordinates
ValidateCoordinates(latitude, longitude) ==
    (-90 <= latitude /\ latitude <= 90) /\ (-180 <= longitude /\ longitude <= 180)

\* submitted coordinates (degrees); "off" is outside the latitude range
Spot ==
    [s \in {"A", "B", "off"} |->
        [latitude |-> IF s = "A" THEN 1 ELSE IF s = "B" THEN 2 ELSE 91,
         longitude |-> 36]]

\* the coordinates inside the valid range
Spots == {s \in DOMAIN Spot :
            ValidateCoordinates(Spot[s].latitude, Spot[s].longitude)}

\* PhotoVerificationService.__init__
QualityThreshold == 6

AuthenticityThreshold == 7

\* _check_authenticity: the baseline score 1.0
BaselineAuthenticity == 10

\* _validate_timestamp: photos of the last 24 hours
MaxPhotoAgeHours == 24

\* required.lower() in detected.lower() or detected.lower() in required.lower(),
\* tabulated for the element names in use
ElementMatches(required, detected) ==
    \/ required = detected
    \/ <<required, detected>> \in {<<"water", "water_or_sky">>, <<"sky", "water_or_sky">>}

\* _check_required_elements
CheckRequiredElements(detected_types, required_elements) ==
    \A required \in required_elements :
        \E detected \in detected_types : ElementMatches(required, detected)

\* PhotoVerificationService.analyze_photo
AnalyzePhoto(f, c) ==
    IF ~Photo[f].readable
    THEN [error |-> TRUE, quality_score |-> 0, authenticity_score |-> 0,
          timestamp_valid |-> FALSE, has_required_elements |-> FALSE,
          verification_passed |-> FALSE]
    ELSE LET quality == Photo[f].quality_score
             authenticity == BaselineAuthenticity
             timestamp_valid ==
                 Photo[f].has_timestamp /\ Photo[f].age_hours <= MaxPhotoAgeHours
             has_required ==
                 IF Challenge[c].required_elements # {}
                 THEN CheckRequiredElements(Photo[f].detected, Challenge[c].required_elements)
                 ELSE TRUE
         IN  [error |-> FALSE, quality_score |-> quality,
              authenticity_score |-> authenticity,
              timestamp_valid |-> timestamp_valid,
              has_required_elements |-> has_required,
              verification_passed |->
                  /\ quality >= QualityThreshold
                  /\ authenticity >= AuthenticityThreshold
                  /\ timestamp_valid
                  /\ has_required]

\* a confidence without the 0.2 of a matching place type (lines 352-353)
ConfidenceWithoutTypeBonus(distance, radius, type_match) ==
    IF distance <= radius
    THEN IF type_match THEN 10 * (radius - distance) ELSE 7 * (radius - distance)
    ELSE 0

\* confidence_score * 10 * radius, exactly: base = 1 - distance / radius,
\* min(base + 0.2, 1.0) on a type match, base * 0.7 otherwise
ConfidenceTimes10R(distance, radius, type_match) ==
    IF distance <= radius
    THEN IF type_match
         THEN IF 10 * (radius - distance) + 2 * radius < 10 * radius
              THEN 10 * (radius - distance) + 2 * radius
              ELSE 10 * radius
         ELSE 7 * (radius - distance)
    ELSE 0

\* Python None, SQL NULL: no distance is negative
Null == -1

\* verification_results as verify_location initializes it (lines 324-331)
NoLocationResult(is_valid_coordinate) ==
    [is_valid_coordinate |-> is_valid_coordinate,
     success |-> FALSE, location_type_match |-> FALSE,
     distance_to_target |-> Null,
     confidence |-> 0, verification_passed |-> FALSE]

\* lines 344-361: the result when the place lookup succeeded
LocationResultFor(radius, distance, type_match, confidence) ==
    [is_valid_coordinate |-> TRUE,
     success |-> TRUE, location_type_match |-> type_match,
     distance_to_target |-> distance,
     confidence |-> confidence,
     verification_passed |-> distance <= radius /\ confidence >= 6 * radius]

\* verify_location for a challenge with the given verification_radius, the
\* place lookup answering with reply
LocationResult(is_valid_coordinate, radius, reply) ==
    IF ~is_valid_coordinate THEN NoLocationResult(FALSE)
    ELSE IF ~(reply.ok /\ reply.places) THEN NoLocationResult(TRUE)
    ELSE LocationResultFor(radius, reply.distance, reply.type_match,
                           ConfidenceTimes10R(reply.distance, radius, reply.type_match))

\* LocationVerificationService.verify_location
VerifyLocation(s, c, r) ==
    LocationResult(ValidateCoordinates(Spot[s].latitude, Spot[s].longitude),
                   Challenge[c].verification_radius, PlaceReply[r])


\* FraudDetectionService.analyze_submission: weights of the three checks,
\* the review threshold and the risk ladder (tenths)
DuplicateWeight == 4

RapidWeight == 3

LocationWeight == 3

ReviewThreshold == 6

CriticalThreshold == 8

MediumThreshold == 3

\* _check_rapid_submissions: more than 5 submissions in the last 60 minutes
RapidLimit == 5

WindowMinutes == 60

\* _check_location_plausibility: more than 3 other submissions from the same
\* coordinates, or more than 100 km/h since the previous submission
SameLocationLimit == 3

SpeedLimitKmh == 100

\* _hash_similarity(h1, h2) > 0.9, on the image fingerprints in use
HashSimilar(f1, f2) == f1 = f2

\* _check_duplicate_image against the service instance's image_hash_cache
CheckDuplicateImage(f, image_hash_cache) ==
    Photo[f].readable /\ \E h \in image_hash_cache : HashSimilar(f, h)

\* FraudDetectionService.__init__: every instance starts with an empty
\* cache, and _process_verification builds a new instance per call
NewImageHashCache == {}

\* _check_rapid_submissions
CheckRapidSubmissions(atts, u, t) ==
    LET recent_submissions ==
            Cardinality({i \in DOMAIN atts :
                            atts[i].user = u /\ atts[i].created_at >= t - WindowMinutes})
    IN  recent_submissions > RapidLimit

\* _calculate_distance (km) between the coordinates in use
DistanceKm(s1, s2) == IF Spot[s1] = Spot[s2] THEN 0 ELSE 111

\* _check_location_plausibility
CheckLocationPlausibility(atts, id) ==
    LET a == atts[id]
        same_location_count ==
            Cardinality({i \in DOMAIN atts :
                            /\ i # id
                            /\ atts[i].user = a.user
                            /\ Spot[atts[i].spot] = Spot[a.spot]})
        earlier == {i \in DOMAIN atts :
                        atts[i].user = a.user /\ atts[i].created_at < a.created_at}
        suspicious_travel ==
            /\ earlier # {}
            /\ LET last == CHOOSE i \in earlier :
                              \A j \in earlier : atts[j].created_at <= atts[i].created_at
                   minutes == a.created_at - atts[last].created_at
               IN  /\ minutes > 0
                   /\ DistanceKm(atts[last].spot, a.spot) * 60 > SpeedLimitKmh * minutes
    IN  same_location_count > SameLocationLimit \/ suspicious_travel

\* a ladder that calls a score high only from 0.7
RiskLevelHighFromSeven(risk_score) ==
    IF risk_score >= CriticalThreshold THEN "critical"
    ELSE IF risk_score >= ReviewThreshold + 1 THEN "high"
    ELSE IF risk_score >= MediumThreshold THEN "medium"
    ELSE "low"

\* the risk ladder of analyze_submission
RiskLevel(risk_score) ==
    IF risk_score >= CriticalThreshold THEN "critical"
    ELSE IF risk_score >= ReviewThreshold THEN "high"
    ELSE IF risk_score >= MediumThreshold THEN "medium"
    ELSE "low"

\* a scoring that asks for review only above 0.6
ScoreSubmissionReviewAboveThreshold(duplicate, rapid, location) ==
    LET risk_score == (IF duplicate THEN DuplicateWeight ELSE 0)
                      + (IF rapid THEN RapidWeight ELSE 0)
                      + (IF location THEN LocationWeight ELSE 0)
    IN  [risk_level |-> RiskLevel(risk_score),
         risk_score |-> risk_score,
         risk_factors |->
             (IF duplicate THEN {"Duplicate image detected"} ELSE {})
             \cup (IF rapid THEN {"Suspicious submission pattern"} ELSE {})
             \cup (IF location THEN {"Implausible location pattern"} ELSE {}),
         requires_manual_review |-> risk_score > ReviewThreshold,
         duplicate_image_detected |-> duplicate,
         suspicious_location |-> location,
         rapid_submissions |-> rapid]

\* lines 496-536 of analyze_submission: score, level and flags from the
\* outcomes of the three checks
ScoreSubmission(duplicate, rapid, location) ==
    LET risk_score == (IF duplicate THEN DuplicateWeight ELSE 0)
                      + (IF rapid THEN RapidWeight ELSE 0)
                      + (IF location THEN LocationWeight ELSE 0)
    IN  [risk_level |-> RiskLevel(risk_score),
         risk_score |-> risk_score,
         risk_factors |->
             (IF duplicate THEN {"Duplicate image detected"} ELSE {})
             \cup (IF rapid THEN {"Suspicious submission pattern"} ELSE {})
             \cup (IF location THEN {"Implausible location pattern"} ELSE {}),
         requires_manual_review |-> risk_score >= ReviewThreshold,
         duplicate_image_detected |-> duplicate,
         suspicious_location |-> location,
         rapid_submissions |-> rapid]

\* analyze_submission(attempt) of a service instance whose cache is
\* image_hash_cache
AnalyzeSubmissionWith(image_hash_cache, atts, id, t) ==
    ScoreSubmission(CheckDuplicateImage(atts[id].photo, image_hash_cache),
                    CheckRapidSubmissions(atts, atts[id].user, t),
                    CheckLocationPlausibility(atts, id))

\* FraudDetectionService().analyze_submission(attempt): a new instance
AnalyzeSubmission(atts, id, t) ==
    AnalyzeSubmissionWith(NewImageHashCache, atts, id, t)

\* _check_duplicate_image stores the hash of an image that is no duplicate
CacheAfter(f, image_hash_cache) ==
    IF Photo[f].readable /\ ~CheckDuplicateImage(f, image_hash_cache)
    THEN image_hash_cache \cup {f}
    ELSE image_hash_cache

-----------------------------------------------------------------------------
(* ChallengeAttemptViewSet and AdminFraudDetectionViewSet                   *)

\* the status policy with the fraud override left out
DecideStatusIgnoringFraud(photo_passed, location_passed, requires_manual_review, risk_factors) ==
    IF photo_passed /\ location_passed
    THEN [status |-> "verified", head |-> "Challenge completed successfully!",
          reasons |-> {}, reward |-> TRUE]
    ELSE [status |-> "failed", head |-> "Verification failed",
          reasons |-> (IF photo_passed THEN {} ELSE {"Photo verification failed"})
                      \cup (IF location_passed THEN {} ELSE {"Location verification failed"}),
          reward |-> FALSE]

\* the status policy with the location check left out
DecideStatusIgnoringLocation(photo_passed, location_passed, requires_manual_review, risk_factors) ==
    IF photo_passed /\ ~requires_manual_review
    THEN [status |-> "verified", head |-> "Challenge completed successfully!",
          reasons |-> {}, reward |-> TRUE]
    ELSE IF requires_manual_review
    THEN [status |-> "flagged", head |-> "Flagged for manual review",
          reasons |-> risk_factors, reward |-> FALSE]
    ELSE [status |-> "failed", head |-> "Verification failed",
          reasons |-> {"Photo verification failed"}, reward |-> FALSE]

\* _process_verification, "Determine overall verification status"
DecideStatus(photo_passed, location_passed, requires_manual_review, risk_factors) ==
    LET fraud_ok == ~requires_manual_review
    IN  IF photo_passed /\ location_passed /\ fraud_ok
        THEN [status |-> "verified", head |-> "Challenge completed successfully!",
              reasons |-> {}, reward |-> TRUE]
        ELSE IF requires_manual_review
        THEN [status |-> "flagged", head |-> "Flagged for manual review",
              reasons |-> risk_factors, reward |-> FALSE]
        ELSE [status |-> "failed", head |-> "Verification failed",
              reasons |-> (IF photo_passed THEN {} ELSE {"Photo verification failed"})
                          \cup (IF location_passed THEN {} ELSE {"Location verification failed"}),
              reward |-> FALSE]

\* lines 168-180: the PhotoAnalysis row of an analysis
PhotoRowOf(id, photo_analysis) ==
    [attempt |-> id,
     quality_score |-> photo_analysis.quality_score,
     authenticity_score |-> photo_analysis.authenticity_score,
     timestamp_valid |-> photo_analysis.timestamp_valid,
     has_required_elements |-> photo_analysis.has_required_elements,
     verification_passed |-> photo_analysis.verification_passed]

\* lines 161-180: analyze_photo and the PhotoAnalysis row
PhotoRow(atts, id) ==
    PhotoRowOf(id, AnalyzePhoto(atts[id].photo, atts[id].challenge))

\* lines 190-197: the LocationVerification row of a verification
LocationRowOf(id, location_verification) ==
    [attempt |-> id,
     is_within_radius |-> location_verification.verification_passed,
     location_type_match |-> location_verification.location_type_match,
     distance_to_target |-> location_verification.distance_to_target,
     verification_confidence |-> location_verification.confidence,
     verification_passed |-> location_verification.verification_passed]

\* lines 182-197: verify_location and the LocationVerification row
LocationRow(atts, id, reply) ==
    LocationRowOf(id, VerifyLocation(atts[id].spot, atts[id].challenge, reply))

\* lines 203-209: the FraudDetection row of an analysis
FraudRowOf(id, fraud_analysis) ==
    [attempt |-> id,
     risk_level |-> fraud_analysis.risk_level,
     risk_score |-> fraud_analysis.risk_score,
     risk_factors |-> fraud_analysis.risk_factors,
     requires_manual_review |-> fraud_analysis.requires_manual_review,
     reviewed |-> FALSE]

\* lines 199-209: analyze_submission and the FraudDetection row
FraudRow(atts, id, t) == FraudRowOf(id, AnalyzeSubmission(atts, id, t))

\* lines 211-214: what the decision reads from the three rows
CheckResults(photo, location, fraud) ==
    [photo_rows |-> <<photo>>, location_rows |-> <<location>>,
     fraud_rows |-> <<fraud>>,
     photo_passed |-> photo.verification_passed,
     location_passed |-> location.verification_passed,
     requires_manual_review |-> fraud.requires_manual_review,
     risk_factors |-> fraud.risk_factors]

\* the outcome of a photo check alone, the other two checks not run
PhotoOnlyResults(photo) ==
    [photo_rows |-> <<photo>>, location_rows |-> <<>>, fraud_rows |-> <<>>,
     photo_passed |-> photo.verification_passed, location_passed |-> FALSE,
     requires_manual_review |-> FALSE, risk_factors |-> {}]

\* the three checks, stopping at a failed photo check
RunChecksShortCircuit(atts, id, reply, t) ==
    IF AnalyzePhoto(atts[id].photo, atts[id].challenge).verification_passed
    THEN CheckResults(PhotoRow(atts, id), LocationRow(atts, id, reply),
                      FraudRow(atts, id, t))
    ELSE PhotoOnlyResults(PhotoRow(atts, id))

\* lines 161-214: the three checks are all run and their rows all created,
\* whatever the earlier ones said
RunChecks(atts, id, reply, t) ==
    CheckResults(PhotoRow(atts, id), LocationRow(atts, id, reply),
                 FraudRow(atts, id, t))

\* LocationVerification.distance_to_target is a FloatField without null=True:
\* inserting the row with None raises IntegrityError
ViolatesNotNull(location_row) == location_row.distance_to_target = Null

\* lines 216-233: status, notes and reward of a decision
Decided(decision) ==
    [status |-> decision.status,
     notes |-> [head |-> decision.head, reasons |-> decision.reasons],
     reward |-> decision.reward]

\* lines 211-262: the result of _process_verification from its checks.  An
\* insert that raises is caught by the except branch (status failed), and
\* leaves the enclosing atomic block marked for rollback.
VerificationResult(id, checks, decided) ==
    IF \E k \in DOMAIN checks.location_rows : ViolatesNotNull(checks.location_rows[k])
    THEN [status |-> "failed",
          notes |-> [head |-> "Verification error", reasons |-> {}],
          reward |-> FALSE, needs_rollback |-> TRUE,
          photo_rows |-> checks.photo_rows,
          location_rows |-> <<>>, fraud_rows |-> <<>>, metrics_rows |-> <<>>]
    ELSE [status |-> decided.status, notes |-> decided.notes,
          reward |-> decided.reward, needs_rollback |-> FALSE,
          photo_rows |-> checks.photo_rows,
          location_rows |-> checks.location_rows,
          fraud_rows |-> checks.fraud_rows,
          metrics_rows |-> <<[attempt |-> id, api_calls_made |-> {"foursquare"}]>>]

\* the decision of lines 211-233 on the outcome of the checks
DecisionOn(checks) ==
    Decided(DecideStatus(checks.photo_passed, checks.location_passed,
                         checks.requires_manual_review, checks.risk_factors))

\* lines 211-262 on the outcome of the checks
ResultOn(id, checks) == VerificationResult(id, checks, DecisionOn(checks))

\* _process_verification(attempt): the rows it creates and the result it returns
ProcessVerification(atts, id, reply, t) == ResultOn(id, RunChecks(atts, id, reply, t))

\* _award_completion_rewards(attempt), in both viewsets: a log line, nothing else
AwardCompletionRewards(log, id) == log (+) SetToBag({id})

\* ChallengeSubmissionSerializer.is_valid: a well-formed photo upload,
\* latitude and longitude inside their ranges, a challenge that is active
IsValid(req) ==
    /\ req.wellformed
    /\ ValidateCoordinates(Spot[req.spot].latitude, Spot[req.spot].longitude)
    /\ req.challenge \in Challenges => Challenge[req.challenge].is_active

\* the (user, challenge) uniqueness of the attempts table, when in force
ViolatesUniqueTogether(u, c) ==
    uniqueTogether /\ \E i \in DOMAIN attempts :
                          attempts[i].user = u /\ attempts[i].challenge = c

\* an atomic block that keeps what it wrote when an exception leaves it
RollbackKeepingWrites(before, written) == written

\* transaction.atomic() left by an exception: what the block wrote is undone
Rollback(before, written) == before

\* bound on the attempts table
MaxAttempts == 2

\* bound on the reward log
MaxRewards == 3

\* lines 122-130: the row ChallengeAttempt.objects.create inserts
NewAttempt(u, req, t) ==
    [user |-> u, challenge |-> req.challenge,
     photo |-> req.photo, spot |-> req.spot,
     verification_status |-> "pending",
     verification_notes |-> [head |-> "", reasons |-> {}],
     points_earned |-> 0,
     created_at |-> t, verified_at |-> 0]

\* what the atomic block had written when attempt.save() raised
WrittenBeforeFailure(created, verification_result) ==
    [attempts |-> created,
     photoAnalysis |-> photoAnalysis \o verification_result.photo_rows]

\* the tables after the block was left by the exception
AfterFailure(written) ==
    Rollback([attempts |-> attempts, photoAnalysis |-> photoAnalysis], written)

\* create after the broken transaction made attempt.save() raise: 500
AbortCreate(after) ==
    /\ attempts' = after.attempts
    /\ photoAnalysis' = after.photoAnalysis
    /\ response' = 500
    /\ rolledBack' = {"ChallengeAttempt", "PhotoAnalysis"}
    /\ UNCHANGED <<locationVerification, fraudDetection,
                   verificationMetrics, rewardLog, now>>

\* lines 135-144: the attempt is updated with the result and saved: 201
CompleteCreate(created, id, t, verification_result) ==
    /\ attempts' =
          [created EXCEPT
              ![id].verification_status = verification_result.status,
              ![id].verification_notes = verification_result.notes,
              ![id].verified_at =
                  IF verification_result.status = "verified" THEN t ELSE 0]
    /\ photoAnalysis' = photoAnalysis \o verification_result.photo_rows
    /\ locationVerification' =
          locationVerification \o verification_result.location_rows
    /\ fraudDetection' = fraudDetection \o verification_result.fraud_rows
    /\ verificationMetrics' =
          verificationMetrics \o verification_result.metrics_rows
    /\ rewardLog' = IF verification_result.reward
                    THEN AwardCompletionRewards(rewardLog, id)
                    ELSE rewardLog
    /\ response' = 201
    /\ rolledBack' = {}
    /\ now' = t

\* lines 132-144, from the result of _process_verification
FinishCreate(created, id, t, verification_result) ==
    IF verification_result.needs_rollback
    THEN AbortCreate(AfterFailure(WrittenBeforeFailure(created, verification_result)))
    ELSE CompleteCreate(created, id, t, verification_result)

\* lines 122-144, from the inserted attempt row
VerifyCreated(created, id, t, reply) ==
    FinishCreate(created, id, t, ProcessVerification(created, id, reply, t))

\* a create that inserts the attempt row before it validates, and keeps it
SubmitAttemptStoringRejected(u, req, cap) ==
    IF \/ ~IsValid(req)
       \/ req.challenge \notin Challenges
       \/ ViolatesUniqueTogether(u, req.challenge)
    THEN /\ Len(attempts) < cap
         /\ attempts' = Append(attempts, NewAttempt(u, req, now + 1))
         /\ response' = 500
         /\ rolledBack' = {}
         /\ UNCHANGED <<photoAnalysis, locationVerification, fraudDetection,
                        verificationMetrics, rewardLog, now>>
    ELSE /\ Len(attempts) < cap
         /\ VerifyCreated(Append(attempts, NewAttempt(u, req, now + 1)),
                          Len(attempts) + 1, now + 1, req.reply)

\* ChallengeAttemptViewSet.create(request) for request.user = u
SubmitAttempt(u, req, cap) ==
    IF \/ ~IsValid(req)
       \/ req.challenge \notin Challenges
       \/ ViolatesUniqueTogether(u, req.challenge)
    THEN \* the exception leaves transaction.atomic() before any write
         /\ response' = 500
         /\ rolledBack' = {}
         /\ UNCHANGED <<attempts, photoAnalysis, locationVerification, fraudDetection,
                        verificationMetrics, rewardLog, now>>
    ELSE /\ Len(attempts) < cap
         /\ VerifyCreated(Append(attempts, NewAttempt(u, req, now + 1)),
                          Len(attempts) + 1, now + 1, req.reply)

\* requests a client sends
Requests ==
    [challenge : Challenges \cup {"none"}, photo : Photos, spot : DOMAIN Spot,
     reply : PlaceReplies, wellformed : BOOLEAN]

\* requests from spot A against challenge c1, with one malformed and one
\* unknown-challenge request standing for all of them
SentRequests ==
    {req \in Requests :
        /\ req.challenge \in {"c1", "none"}
        /\ req.spot = "A"
        /\ req.reply \in {"near", "far", "down"}
        /\ (~req.wellformed \/ req.challenge = "none")
               => (req.photo = "good" /\ req.reply = "near"
                   /\ (req.wellformed \/ req.challenge = "c1"))}

CreateFrom(requests, cap) ==
    \E u \in Users, req \in requests :
        /\ SubmitAttempt(u, req, cap)
        /\ UNCHANGED <<ledgerVars, concVars, uniqueTogether, imageHashCache, serviceVars>>

Create == CreateFrom(SentRequests, MaxAttempts)

\* ChallengeAttemptViewSet.resubmit(request, pk): get_object() on the user's
\* own attempts; pk 0 stands for an id that is not there
Resubmit ==
    \E u \in Users, pk \in 0..Len(attempts), req \in SentRequests :
        /\ IF pk = 0 \/ (pk > 0 /\ attempts[pk].user # u)
           THEN /\ response' = 500
                /\ UNCHANGED <<attempts, photoAnalysis, locationVerification,
                               fraudDetection, verificationMetrics, rewardLog, now,
                               rolledBack>>
           ELSE IF attempts[pk].verification_status = "verified"
           THEN /\ response' = 400
                /\ UNCHANGED <<attempts, photoAnalysis, locationVerification,
                               fraudDetection, verificationMetrics, rewardLog, now,
                               rolledBack>>
           ELSE \* new_data is built and dropped: create reads request.data
                SubmitAttempt(u, req, MaxAttempts)
        /\ UNCHANGED <<ledgerVars, concVars, uniqueTogether, imageHashCache, serviceVars>>

ReviewActions == {"approve", "reject", "other"}

\* AdminFraudDetectionViewSet.review_submission(request, pk) with
\* request.data['action'] = action; pk 0 stands for an id that is not there
ReviewRecord(pk, action) ==
    /\ IF pk = 0
       THEN /\ response' = 500
            /\ UNCHANGED <<attempts, fraudDetection, rewardLog>>
       ELSE IF action \notin {"approve", "reject"}
       THEN /\ response' = 400
            /\ UNCHANGED <<attempts, fraudDetection, rewardLog>>
       ELSE /\ IF action = "approve"
               THEN /\ attempts' =
                          [attempts EXCEPT
                              ![fraudDetection[pk].attempt].verification_status = "verified",
                              ![fraudDetection[pk].attempt].verification_notes =
                                  [head |-> "Manually approved", reasons |-> {}],
                              ![fraudDetection[pk].attempt].verified_at = now]
                    /\ rewardLog' = AwardCompletionRewards(rewardLog, fraudDetection[pk].attempt)
               ELSE /\ attempts' =
                          [attempts EXCEPT
                              ![fraudDetection[pk].attempt].verification_status = "failed",
                              ![fraudDetection[pk].attempt].verification_notes =
                                  [head |-> "Manually rejected", reasons |-> {}]]
                    /\ UNCHANGED rewardLog
            /\ fraudDetection' =
                  [fraudDetection EXCEPT ![pk].requires_manual_review = FALSE,
                                         ![pk].reviewed = TRUE]
            /\ response' = 200
    /\ UNCHANGED <<photoAnalysis, locationVerification, verificationMetrics, now,
                   ledgerVars, concVars, uniqueTogether, rolledBack, imageHashCache,
                   serviceVars>>

\* review_submission on any record, with any action
ReviewSubmission ==
    \E pk \in 0..Len(fraudDetection), action \in ReviewActions :
        /\ BagCardinality(rewardLog) < MaxRewards
        /\ ReviewRecord(pk, action)

InitViews ==
    /\ InitLedger
    /\ InitConc
    /\ InitVerify
    /\ uniqueTogether \in BOOLEAN
    /\ NoQuests

NextVerify == Create \/ Resubmit \/ ReviewSubmission

SpecVerify == InitViews /\ [][NextVerify]_vars


-----------------------------------------------------------------------------
(* SpecBurst: one user submitting minute after minute                       *)

MaxBurst == 6

\* well-formed requests against challenge c1 from either spot, the place
\* index answering with a match nearby
BurstRequests ==
    {req \in Requests :
        /\ req.wellformed /\ req.challenge = "c1" /\ req.reply = "near"
        /\ req.spot \in Spots}

BurstCreate == CreateFrom(BurstRequests, MaxBurst)

NextBurst == BurstCreate

SpecBurst == InitViews /\ [][NextBurst]_vars


-----------------------------------------------------------------------------
(* Properties of the verification views                                     *)

TerminalStatuses == {"verified", "failed", "flagged", "rejected"}

\* C4: an attempt in a terminal status keeps it, except that a flagged
\* attempt may move to verified or failed (the administrator's review); a
\* verified or failed attempt never changes status, review included.
TerminalStatusIsFinal ==
    [][\A i \in DOMAIN attempts :
          (/\ attempts[i].verification_status \in TerminalStatuses
           /\ attempts'[i].verification_status # attempts[i].verification_status)
              => (/\ attempts[i].verification_status = "flagged"
                  /\ attempts'[i].verification_status \in {"verified", "failed"})]_vars

\* (user, challenge) pairs holding a verified attempt
VerifiedPairs(atts) ==
    {<<atts[i].user, atts[i].challenge>> :
        i \in {j \in DOMAIN atts : atts[j].verification_status = "verified"}}

\* C5: once a (user, challenge) pair has a verified attempt, a submission
\* for that pair (create or resubmit) adds no attempt for the pair, leaves
\* the verified attempt as it is, creates no PointsTransaction and triggers
\* no reward issuance.
VerifiedPairRejectsSubmission ==
    [][(Len(attempts') > Len(attempts))
          => LET new == attempts'[Len(attempts')]
             IN  <<new.user, new.challenge>> \notin VerifiedPairs(attempts)]_vars

\* C6: an attempt that automatic verification ended as verified carries
\* points_earned equal to the challenge's points_reward, and the user's
\* ledger holds a PointsTransaction of exactly that amount.
VerifiedAttemptIsRewarded ==
    \A i \in DOMAIN attempts :
        (attempts[i].verification_status = "verified" /\ ~fraudDetection[i].reviewed)
            => LET reward == Challenge[attempts[i].challenge].points_reward
               IN  /\ attempts[i].points_earned = reward
                   /\ \E r \in DOMAIN pointsTransactions :
                          r.user = attempts[i].user /\ r.points = reward


-----------------------------------------------------------------------------
(* SpecFraud: one FraudDetectionService instance analysing a user's        *)
(* submissions as they come in, one a minute                               *)

MaxAnalyses == 6

\* the next attempt row is stored and handed to analyze_submission
AnalyzeNext ==
    /\ Len(attempts) < MaxAnalyses
    /\ \E u \in Users, f \in Photos, s \in Spots :
          LET created == Append(attempts, NewAttempt(u, [challenge |-> "c1", photo |-> f,
                                                         spot |-> s], now + 1))
          IN  /\ attempts' = created
              /\ fraudDetection' =
                    Append(fraudDetection,
                           AnalyzeSubmissionWith(imageHashCache, created,
                                                 Len(attempts) + 1, now + 1))
              /\ imageHashCache' = CacheAfter(f, imageHashCache)
              /\ now' = now + 1
    /\ UNCHANGED <<ledgerVars, concVars, photoAnalysis, locationVerification,
                   verificationMetrics, rewardLog, uniqueTogether, response, rolledBack,
                   serviceVars>>

NextFraud == AnalyzeNext

SpecFraud == Init /\ [][NextFraud]_vars

\* C12: every analysis carries a risk_score that is exactly the sum of the
\* weights of the checks it reports as triggered (duplicate 0.4, rapid 0.3,
\* location 0.3), a risk_level from the ladder >= 0.8 critical, >= 0.6 high,
\* >= 0.3 medium, else low, and requires_manual_review exactly when the
\* score is >= 0.6.
FraudScoreIsSumOfWeights ==
    \A i \in DOMAIN fraudDetection :
        LET a == fraudDetection[i]
            sum == (IF a.duplicate_image_detected THEN 4 ELSE 0)
                   + (IF a.rapid_submissions THEN 3 ELSE 0)
                   + (IF a.suspicious_location THEN 3 ELSE 0)
        IN  /\ a.risk_score = sum
            /\ a.duplicate_image_detected <=> "Duplicate image detected" \in a.risk_factors
            /\ a.rapid_submissions <=> "Suspicious submission pattern" \in a.risk_factors
            /\ a.suspicious_location <=> "Implausible location pattern" \in a.risk_factors
            /\ a.risk_level = (IF sum >= 8 THEN "critical"
                               ELSE IF sum >= 6 THEN "high"
                               ELSE IF sum >= 3 THEN "medium" ELSE "low")
            /\ a.requires_manual_review <=> (sum >= 6)

\* C12 witness: duplicate and rapid triggered, location not: 0.7, high;
\* next to analyses with score 0.6, 1.0 and 0.3
DuplicatePlusRapidIsHigh ==
    /\ \E i \in DOMAIN fraudDetection :
          /\ fraudDetection[i].risk_factors =
                 {"Duplicate image detected", "Suspicious submission pattern"}
          /\ fraudDetection[i].risk_score = 7
          /\ fraudDetection[i].risk_level = "high"
    /\ \E i \in DOMAIN fraudDetection : fraudDetection[i].risk_score = 3


-----------------------------------------------------------------------------
(* Scenarios of the verification pipeline                                   *)

\* submissions of attempt i's user in the hour up to attempt i, itself included
SubmissionsInTrailingHour(i) ==
    Cardinality({j \in DOMAIN attempts :
                    /\ attempts[j].user = attempts[i].user
                    /\ attempts[j].created_at <= attempts[i].created_at
                    /\ attempts[j].created_at >= attempts[i].created_at - WindowMinutes})

\* C13: fraud override.  An attempt whose photo and location checks both
\* passed, made as the user's 6th (or later) submission within the trailing
\* hour and carrying no other fraud signal, is flagged, and its fraud record
\* requires manual review.
SixthSubmissionIsFlagged ==
    \A i \in DOMAIN attempts :
        ( /\ photoAnalysis[i].verification_passed
          /\ locationVerification[i].verification_passed
          /\ SubmissionsInTrailingHour(i) >= 6
          /\ fraudDetection[i].risk_factors \subseteq {"Suspicious submission pattern"} )
        => /\ attempts[i].verification_status = "flagged"
           /\ fraudDetection[i].requires_manual_review


-----------------------------------------------------------------------------
(* SpecGeo: submissions of a good photo, the place index answering with    *)
(* each of its replies                                                      *)

MaxGeo == 2

GeoRequests ==
    {req \in Requests :
        /\ req.wellformed /\ req.challenge \in Challenges
        /\ req.photo = "good" /\ req.spot = "A"}

GeoCreate == CreateFrom(GeoRequests, MaxGeo)

NextGeo == GeoCreate

SpecGeo == InitViews /\ [][NextGeo]_vars

\* C14: the geofence boundary is inclusive.  With a place match returned, a
\* location check at a distance equal to the challenge's verification_radius
\* passes, and one at any greater distance fails.
GeofenceBoundaryInclusive ==
    \A i \in DOMAIN locationVerification :
        LET row == locationVerification[i]
            radius == Challenge[attempts[row.attempt].challenge].verification_radius
        IN  /\ (row.location_type_match /\ row.distance_to_target = radius)
                   => row.verification_passed
            /\ row.distance_to_target > radius => ~row.verification_passed


-----------------------------------------------------------------------------
(* Atomicity and completeness of a submission's records                     *)

\* rows of a satellite table that belong to attempt i
RowsFor(table, i) == {k \in DOMAIN table : table[k].attempt = i}

\* C15: a submission is written all-or-nothing.  No committed state has
\* some but not all of PhotoAnalysis, LocationVerification, FraudDetection
\* and the metrics record for an attempt, none has satellite rows of an
\* attempt that is pending or not there, and no attempt is left pending.
SubmissionIsAllOrNothing ==
    /\ \A i \in DOMAIN attempts :
          LET present == {RowsFor(photoAnalysis, i) # {},
                          RowsFor(locationVerification, i) # {},
                          RowsFor(fraudDetection, i) # {},
                          RowsFor(verificationMetrics, i) # {}}
          IN  /\ Cardinality(present) = 1
              /\ attempts[i].verification_status = "pending" => present = {FALSE}
              /\ attempts[i].verification_status # "pending"
    /\ \A k \in DOMAIN photoAnalysis : photoAnalysis[k].attempt \in DOMAIN attempts
    /\ \A k \in DOMAIN locationVerification :
          locationVerification[k].attempt \in DOMAIN attempts
    /\ \A k \in DOMAIN fraudDetection : fraudDetection[k].attempt \in DOMAIN attempts
    /\ \A k \in DOMAIN verificationMetrics :
          verificationMetrics[k].attempt \in DOMAIN attempts

\* C15 witness: a create failed after its PhotoAnalysis row was written,
\* next to an attempt stored earlier
FailedPartwayAndRolledBack ==
    /\ rolledBack = {"ChallengeAttempt", "PhotoAnalysis"}
    /\ response = 500
    /\ Len(attempts) = 1
    /\ Len(photoAnalysis) = 1

\* C16: every attempt that automatic verification gave a terminal status has
\* exactly one PhotoAnalysis, one LocationVerification and one FraudDetection
\* row, also when an earlier check had already failed.
EveryCheckIsPersisted ==
    \A i \in DOMAIN attempts :
        attempts[i].verification_status # "pending"
            => /\ Cardinality(RowsFor(photoAnalysis, i)) = 1
               /\ Cardinality(RowsFor(locationVerification, i)) = 1
               /\ Cardinality(RowsFor(fraudDetection, i)) = 1

\* C16 witness: the photo check failed, and the location and fraud rows of
\* that attempt are there
ChecksPersistedAfterPhotoFailure ==
    \E i \in DOMAIN attempts :
        /\ attempts[i].verification_status = "failed"
        /\ \E k \in RowsFor(photoAnalysis, i) : ~photoAnalysis[k].verification_passed
        /\ \E k \in RowsFor(locationVerification, i) :
              locationVerification[k].verification_passed
        /\ RowsFor(fraudDetection, i) # {}


\* C17: a create that passed input validation ends with a stored attempt in
\* a terminal status: none is rolled back and dropped, none is left pending,
\* also when the place lookup fails or returns no place.
ValidatedSubmissionIsStored ==
    /\ rolledBack = {}
    /\ \A i \in DOMAIN attempts : attempts[i].verification_status \in TerminalStatuses

-----------------------------------------------------------------------------
(* SpecFault: update_user_progress calls, one at a time, some of which     *)
(* meet a database error after the profile has been saved                   *)

\* statements of the call that may raise
FailurePoints == {"points_transaction", "level_up_transaction"}

\* update_user_progress when the statement at `point` raises: the exception
\* leaves transaction.atomic() and is answered by the generic except branch
UpdateUserProgressFailing(u, points_to_add, kind, increment_challenges, increment_quizzes, point) ==
    /\ u \in Users
    /\ LET p1 == AddPoints(GetOrCreate(userProfiles, u), points_to_add,
                           increment_challenges, increment_quizzes)
           s1 == [profile |-> p1,
                  badges  |-> userBadges,
                  txs     |-> InsertTx(pointsTransactions, u, kind, points_to_add)]
           current_points == s1.profile.total_points
           swept == BadgeLoop(s1, u,
                              BadgesAvailable(current_points, OwnedBadges(userBadges, u)),
                              1, current_points)
           before == [profiles |-> userProfiles, badges |-> userBadges,
                      txs |-> pointsTransactions]
           written == IF point = "points_transaction"
                      THEN [before EXCEPT !.profiles = SaveProfile(userProfiles, p1)]
                      ELSE [profiles |-> SaveProfile(userProfiles, p1),
                            badges |-> swept.badges, txs |-> swept.txs]
           after == Rollback(before, written)
       IN  /\ userProfiles' = after.profiles
           /\ userBadges' = after.badges
           /\ pointsTransactions' = after.txs
           /\ result' = Failure("database error")

UpdateFails ==
    /\ CallRows(pointsTransactions) < MaxCalls
    /\ \E u \in Users, d \in Deltas, k \in Kinds, ic \in BOOLEAN, iq \in BOOLEAN,
          point \in FailurePoints :
          UpdateUserProgressFailing(u, d, k, ic, iq, point)
    /\ UNCHANGED <<concVars, verifyVars>>

NextFault == Update \/ UpdateUnknown \/ UpdateFails

SpecFault == Init /\ [][NextFault]_vars

\* C19: a call with a user id that does not exist returns the failure
\* "User not found", and a step that returns it changes no UserProfile,
\* PointsTransaction or UserBadge row.
UnknownUserChangesNothing ==
    [][/\ UpdateUnknown => result' = Failure("User not found")
       /\ result'.error = "User not found"
             => UNCHANGED <<userProfiles, pointsTransactions, userBadges>>]_vars

\* C19 witness: "User not found" was returned with rows of earlier calls in
\* the tables
UnknownUserAfterProgress ==
    /\ result = Failure("User not found")
    /\ userProfiles # {}
    /\ userBadges # {}

\* C20: a call that fails after the profile was updated returns
\* success = False and leaves total_points, the counters, current_level and
\* the PointsTransaction and UserBadge rows exactly as before the call.
FailedUpdateRollsBack ==
    [][/\ UpdateFails => ~result'.success
       /\ result'.error = "database error"
             => UNCHANGED <<userProfiles, pointsTransactions, userBadges>>]_vars

\* C20 witness: a call failed with rows of earlier calls in the tables
FailedAfterProgress ==
    /\ result = Failure("database error")
    /\ userProfiles # {}
    /\ userBadges # {}


-----------------------------------------------------------------------------
(* Duplicate images across requests                                         *)

\* earlier attempts whose photo has a hash similar to that of attempt i
EarlierSimilarPhoto(i) ==
    {j \in DOMAIN attempts :
        j < i /\ HashSimilar(attempts[i].photo, attempts[j].photo)}

\* C21: duplicate-image detection works across submissions.  An attempt
\* whose photo is similar (> 0.9) to the photo checked in an earlier attempt,
\* in an earlier request, has a fraud record that reports the duplicate
\* image and whose risk_score includes the 0.4 of the duplicate check.
DuplicateDetectedAcrossRequests ==
    \A i \in DOMAIN attempts :
        EarlierSimilarPhoto(i) # {}
            => \A k \in RowsFor(fraudDetection, i) :
                  /\ "Duplicate image detected" \in fraudDetection[k].risk_factors
                  /\ fraudDetection[k].risk_score >= DuplicateWeight


-----------------------------------------------------------------------------
(* SpecQueue: a user submitting minute after minute while an administrator *)
(* works through the records that wait for manual review                    *)

\* FraudDetection ids listed by get_queryset with ?requires_review=true
ReviewQueue == {k \in DOMAIN fraudDetection : fraudDetection[k].requires_manual_review}

\* the administrator approves or rejects a record of the queue
ReviewQueued ==
    \E pk \in ReviewQueue, action \in {"approve", "reject"} : ReviewRecord(pk, action)

NextQueue == BurstCreate \/ ReviewQueued

SpecQueue == InitViews /\ [][NextQueue]_vars

\* the evidence fields of a FraudDetection row
FraudEvidence(row) ==
    [risk_level |-> row.risk_level, risk_score |-> row.risk_score,
     risk_factors |-> row.risk_factors,
     requires_manual_review |-> row.requires_manual_review]

\* C22: PhotoAnalysis, LocationVerification and FraudDetection rows are
\* write-once.  No step (create, resubmit, review_submission) removes a row
\* or changes an evidence field of a row that exists: verification_passed
\* and the scores of the photo and location rows, risk_level, risk_score,
\* risk_factors and requires_manual_review of the fraud row.
SatelliteRecordsAreWriteOnce ==
    [][/\ \A k \in DOMAIN photoAnalysis :
             k \in DOMAIN photoAnalysis' /\ photoAnalysis'[k] = photoAnalysis[k]
       /\ \A k \in DOMAIN locationVerification :
             /\ k \in DOMAIN locationVerification'
             /\ locationVerification'[k] = locationVerification[k]
       /\ \A k \in DOMAIN fraudDetection :
             /\ k \in DOMAIN fraudDetection'
             /\ FraudEvidence(fraudDetection'[k]) = FraudEvidence(fraudDetection[k])]_vars


-----------------------------------------------------------------------------
(* SpecInput: submissions with valid and invalid input                      *)

MaxInput == 2

\* a good photo sent for every challenge id from every coordinate, as a
\* well-formed or a malformed upload
InputRequests ==
    {req \in Requests : req.photo = "good" /\ req.reply \in {"near", "far"}}

InputCreate == CreateFrom(InputRequests, MaxInput)

NextInput == InputCreate

SpecInput == InitViews /\ [][NextInput]_vars

\* a request with an out-of-range coordinate, an unknown or inactive
\* challenge, or a malformed photo
InvalidInput(req) ==
    \/ Spot[req.spot].latitude < -90 \/ Spot[req.spot].latitude > 90
    \/ Spot[req.spot].longitude < -180 \/ Spot[req.spot].longitude > 180
    \/ req.challenge \notin Challenges
    \/ ~Challenge[req.challenge].is_active
    \/ ~req.wellformed

-----------------------------------------------------------------------------
(* SpecLocate: verify_location called on its own                            *)

\* verification_radius values tried (meters)
Radii == {100, 500, 700}

\* distances of the closest place tried (meters), on both sides of every
\* threshold of the three radii
Distances == {0, 14, 15, 60, 61, 71, 72, 100, 101, 300, 301, 500, 501, 700, 701}

\* replies of the place index
Replies == [ok : BOOLEAN, places : BOOLEAN, distance : Distances, type_match : BOOLEAN]

\* one call of verify_location
Locate ==
    /\ \E s \in DOMAIN Spot, radius \in Radii, reply \in Replies :
          located' =
              [spot |-> s, radius |-> radius, reply |-> reply,
               result |-> LocationResult(
                              ValidateCoordinates(Spot[s].latitude, Spot[s].longitude),
                              radius, reply)]
    /\ UNCHANGED <<ledgerVars, concVars, attempts, photoAnalysis, locationVerification,
                   fraudDetection, verificationMetrics, rewardLog, uniqueTogether,
                   response, now, rolledBack, imageHashCache, crashed, questVars>>

NextLocate == Locate

SpecLocate == Init /\ [][NextLocate]_vars

\* C24: verify_location passes if and only if a place match was returned,
\* distance <= verification_radius and confidence >= 0.6, the confidence
\* being min(1 - distance/radius + 0.2, 1.0) when the place type matches and
\* (1 - distance/radius) * 0.7 when it does not, and 0 out of the radius.
\* (Confidences are compared after multiplying by 10 * radius.)
LocationPassesIffCloseAndConfident ==
    located # <<>> =>
        LET d == located.reply.distance
            r == located.radius
            found == /\ located.result.is_valid_coordinate
                     /\ located.reply.ok /\ located.reply.places
            bonus == 10 * (r - d) + 2 * r
            confidence == IF d > r THEN 0
                          ELSE IF located.reply.type_match
                               THEN (IF bonus < 10 * r THEN bonus ELSE 10 * r)
                               ELSE 7 * (r - d)
        IN  /\ found => located.result.confidence = confidence
            /\ located.result.verification_passed
                  <=> (found /\ d <= r /\ confidence >= 6 * r)
            /\ (found /\ d > r) => located.result.confidence = 0

\* C24 witness: a matching place 61 m away for a radius of 100 m: inside
\* the radius, confidence 0.59, not passed
WithinRadiusButNotConfident ==
    /\ located # <<>>
    /\ located.result.success
    /\ located.radius = 100
    /\ located.result.distance_to_target = 61
    /\ located.result.location_type_match
    /\ located.result.confidence = 590
    /\ ~located.result.verification_passed


-----------------------------------------------------------------------------
(* Errors inside a sub-check                                                *)

\* C25: a sub-check that errors degrades to its conservative default and the
\* pipeline proceeds to a status decision.  For the place lookup: a create
\* with valid input during which the place API errors, times out or answers
\* non-200 stores the attempt with a LocationVerification row that did not
\* pass and a status decided from it (failed, or flagged by fraud detection).
PlaceLookupErrorDegrades ==
    [][\A u \in Users, req \in SentRequests :
          ( /\ IsValid(req)
            /\ req.challenge \in Challenges
            /\ ~ViolatesUniqueTogether(u, req.challenge)
            /\ ~PlaceReply[req.reply].ok
            /\ SubmitAttempt(u, req, MaxAttempts) )
          => /\ Len(attempts') = Len(attempts) + 1
             /\ attempts'[Len(attempts')].verification_status \in {"failed", "flagged"}
             /\ \E k \in RowsFor(locationVerification', Len(attempts')) :
                   ~locationVerification'[k].verification_passed]_vars


-----------------------------------------------------------------------------
(* SpecCrash: the worker dies in the middle of a create; the client sends  *)
(* the submission again                                                     *)

\* where the worker dies: during analyze_photo (the attempt row inserted),
\* or during verify_location (the PhotoAnalysis row inserted as well)
CrashPoints == {"analyze_photo", "verify_location"}

\* what the open transaction had written when the worker died
WrittenBeforeCrash(created, id, point) ==
    [attempts |-> created,
     photoAnalysis |-> IF point = "analyze_photo" THEN photoAnalysis
                       ELSE Append(photoAnalysis, PhotoRow(created, id))]

\* create(request) cut short at point: the transaction is never committed
\* and the database drops it; the client gets no response
CrashDuringCreate(u, req, point) ==
    /\ IsValid(req)
    /\ req.challenge \in Challenges
    /\ ~ViolatesUniqueTogether(u, req.challenge)
    /\ Len(attempts) < MaxAttempts
    /\ attempts' =
          AfterFailure(WrittenBeforeCrash(Append(attempts, NewAttempt(u, req, now + 1)),
                                          Len(attempts) + 1, point)).attempts
    /\ photoAnalysis' =
          AfterFailure(WrittenBeforeCrash(Append(attempts, NewAttempt(u, req, now + 1)),
                                          Len(attempts) + 1, point)).photoAnalysis
    /\ crashed' = crashed \cup {<<u, req.challenge>>}
    /\ response' = 0
    /\ rolledBack' = IF point = "analyze_photo" THEN {"ChallengeAttempt"}
                     ELSE {"ChallengeAttempt", "PhotoAnalysis"}
    /\ UNCHANGED <<locationVerification, fraudDetection, verificationMetrics,
                   rewardLog, now>>

Crash ==
    \E u \in Users, req \in SentRequests, point \in CrashPoints :
        /\ CrashDuringCreate(u, req, point)
        /\ UNCHANGED <<ledgerVars, concVars, uniqueTogether, imageHashCache, located,
                       questVars>>

NextCrash == Create \/ Crash

SpecCrash == InitViews /\ [][NextCrash]_vars

\* C26: a submission whose create died mid-pipeline is safely retryable.
\* Sending it again for the same (user, challenge) with valid input stores
\* an attempt in a terminal status with exactly one new PhotoAnalysis,
\* LocationVerification and FraudDetection row of its own, whatever the
\* failed run had written, and issues at most one reward for it.
CrashedSubmissionIsRetryable ==
    [][\A u \in Users, req \in SentRequests :
          ( /\ <<u, req.challenge>> \in crashed
            /\ IsValid(req)
            /\ ~ViolatesUniqueTogether(u, req.challenge)
            /\ SubmitAttempt(u, req, MaxAttempts) )
          => /\ Len(attempts') = Len(attempts) + 1
             /\ attempts'[Len(attempts')].verification_status \in TerminalStatuses
             /\ Cardinality(RowsFor(photoAnalysis', Len(attempts'))) = 1
             /\ Cardinality(RowsFor(locationVerification', Len(attempts'))) = 1
             /\ Cardinality(RowsFor(fraudDetection', Len(attempts'))) = 1
             /\ Len(photoAnalysis') = Len(photoAnalysis) + 1
             /\ BagCardinality(rewardLog') <= BagCardinality(rewardLog) + 1]_vars


-----------------------------------------------------------------------------
(* Fraud signals and the flagged status                                     *)

\* number of fraud checks that triggered
Triggered(duplicate, rapid, location) ==
    Cardinality({k \in {"duplicate", "rapid", "location"} :
                    \/ k = "duplicate" /\ duplicate
                    \/ k = "rapid" /\ rapid
                    \/ k = "location" /\ location})

\* the status _process_verification decides for passing photo and location
\* checks and the given outcomes of the three fraud checks
StatusForSignals(duplicate, rapid, location) ==
    DecideStatus(TRUE, TRUE,
                 ScoreSubmission(duplicate, rapid, location).requires_manual_review,
                 ScoreSubmission(duplicate, rapid, location).risk_factors).status

-----------------------------------------------------------------------------
(* Reward issuance                                                          *)

\* C28: completion rewards are issued at most once per attempt: over
\* automatic verification followed by any number of review_submission calls
\* (approve or reject, repeated, in any order), _award_completion_rewards
\* runs at most once for the same attempt.
RewardIssuedAtMostOncePerAttempt ==
    \A i \in DOMAIN attempts : CopiesIn(i, rewardLog) <= 1


-----------------------------------------------------------------------------
(* SpecQuest: update_quest_progress tasks (apps/quests/tasks.py) run by    *)
(* two Celery workers for quests the user has started                       *)

\* the Quest catalog rows used: experience_reward and the challenges linked
\* to the quest
Quest ==
    [q \in {"q1", "q2"} |->
        [experience_reward |-> IF q = "q1" THEN 100 ELSE 200,
         challenges |-> IF q = "q1" THEN {"ch1"} ELSE {"ch1", "ch2"}]]

\* @shared_task(bind=True, max_retries=3)
MaxRetries == 3

\* the QuestLog row start_quest creates, or one the admin set to abandoned
StartedQuest(u, q, status) ==
    [user |-> u, quest |-> q, status |-> status, progress |-> 0,
     experience_earned |-> 0]

\* quests started through start_quest and challenges logged through the
\* admin before the tasks run
InitQuest ==
    /\ InitLedger
    /\ InitConc
    /\ InitVerify
    /\ uniqueTogether = FALSE
    /\ \E u \in Users :
          /\ questLogs \in {<<>>,
                            <<StartedQuest(u, "q1", "in_progress")>>,
                            <<StartedQuest(u, "q1", "abandoned")>>,
                            <<StartedQuest(u, "q1", "in_progress"),
                              StartedQuest(u, "q2", "in_progress")>>}
          /\ challengeLogs \in SUBSET {<<u, "ch1">>, <<u, "ch2">>}
    /\ profilePoints = [u \in Users |-> 0]
    /\ task = [w \in Workers |-> IdleTask]

\* QuestLog.objects.filter(user=user, status='in_progress'), in id order
InProgressQuests(u) ==
    SelectSeq([i \in DOMAIN questLogs |-> i],
              LAMBDA i : questLogs[i].user = u /\ questLogs[i].status = "in_progress")

\* lines 68-70: the except branch calls self.retry, which runs the task
\* again until max_retries is used up
AfterException(t) ==
    IF t.retries < MaxRetries
    THEN [t EXCEPT !.pc = "retry", !.retries = @ + 1, !.locked = 0,
                   !.in_progress_quests = <<>>]
    ELSE [t EXCEPT !.pc = "failed", !.locked = 0, !.in_progress_quests = <<>>]

\* lines 13-24: the task starts (or starts again) for quest_log_id; id 0
\* stands for a row that is not there.  With no quest in progress the loop
\* is empty and the task returns "Updated 0 quest progress records".
TaskBegin(w, quest_log_id) ==
    /\ task[w].pc \in {"idle", "retry"}
    /\ task[w].pc = "retry" => quest_log_id = task[w].quest_log_id
    /\ task' =
          [task EXCEPT ![w] =
              IF quest_log_id = 0
              THEN AfterException([@ EXCEPT !.quest_log_id = 0])
              ELSE IF InProgressQuests(questLogs[quest_log_id].user) = <<>>
              THEN [@ EXCEPT !.pc = "done", !.quest_log_id = quest_log_id]
              ELSE [@ EXCEPT !.pc = "locking", !.quest_log_id = quest_log_id,
                             !.in_progress_quests =
                                 InProgressQuests(questLogs[quest_log_id].user)]]
    /\ UNCHANGED <<questLogs, challengeLogs, profilePoints>>

\* line 24: the for loop evaluates the queryset, prefetch included.  Quest
\* has no trivia_questions relation (models.py:9-53, 238-270), so with a row
\* in the result the lookup 'quest__trivia_questions' of line 19 raises
\* AttributeError before the loop body runs; the except branch of line 68
\* takes it.
TaskPrefetch(w) ==
    /\ task[w].pc = "locking"
    /\ task' = [task EXCEPT ![w] = AfterException(@)]
    /\ UNCHANGED <<questLogs, challengeLogs, profilePoints>>

\* line 28, were the prefetch lookup accepted: select_for_update().get(
\* pk=progress.pk) inside the atomic block waits for the row lock
TaskLock(w) ==
    /\ task[w].pc = "locking"
    /\ \A v \in Workers : task[v].locked # Head(task[w].in_progress_quests)
    /\ task' = [task EXCEPT ![w].pc = "locked",
                            ![w].locked = Head(task[w].in_progress_quests)]
    /\ UNCHANGED <<questLogs, challengeLogs, profilePoints>>

\* line 31: locked_progress.challenge_logs raises AttributeError: QuestLog
\* has no field, property or reverse relation of that name.  The exception
\* leaves the atomic block (nothing was written, the lock is released) and
\* reaches the except branch of line 68.
TaskCountChallenges(w) ==
    /\ task[w].pc = "locked"
    /\ task' = [task EXCEPT ![w] = AfterException(@)]
    /\ UNCHANGED <<questLogs, challengeLogs, profilePoints>>

QuestTask ==
    /\ \E w \in Workers :
          \/ \E quest_log_id \in 0..Len(questLogs) : TaskBegin(w, quest_log_id)
          \/ TaskPrefetch(w)
          \/ TaskLock(w)
          \/ TaskCountChallenges(w)
    /\ UNCHANGED <<ledgerVars, concVars, attempts, photoAnalysis, locationVerification,
                   fraudDetection, verificationMetrics, rewardLog, uniqueTogether,
                   response, now, rolledBack, imageHashCache, located, crashed>>

NextQuest == QuestTask

SpecQuest == InitQuest /\ [][NextQuest]_vars

\* the user has a ChallengeLog for every challenge of the quest
QuestChallengesDone(u, q) == \A ch \in Quest[q].challenges : <<u, ch>> \in challengeLogs

\* experience_reward of the quests the user's logs show as completed
RECURSIVE RewardOfCompleted(_, _)
RewardOfCompleted(u, n) ==
    IF n = 0 THEN 0
    ELSE RewardOfCompleted(u, n - 1)
         + (IF questLogs[n].user = u /\ questLogs[n].status = "completed"
            THEN Quest[questLogs[n].quest].experience_reward ELSE 0)

-----------------------------------------------------------------------------
(* SpecLevel: update_user_progress called directly (no serializer), with   *)
(* point deltas of either sign, one call at a time                          *)

\* bound: direct calls made per behaviour
MaxLevelCalls == 4

\* points_to_add values tried: PointsTransaction.points "can be negative for
\* spending", the service does not check the sign
SignedDeltas == {-6000, -700, 0, 600, 3000}

\* rows written by line 47 for the direct calls
LevelCallRows(txs) ==
    LET rows == {r \in DOMAIN txs : r.transaction_type = "special_event"}
    IN  BagCardinality([r \in rows |-> txs[r]])

AdjustPoints ==
    /\ LevelCallRows(pointsTransactions) < MaxLevelCalls
    /\ \E u \in Users, d \in SignedDeltas :
          UpdateUserProgress(u, d, "special_event", FALSE, FALSE)
    /\ UNCHANGED <<concVars, verifyVars>>

NextLevel == AdjustPoints

SpecLevel == Init /\ [][NextLevel]_vars

\* level_number of profile.current_level, 0 for NULL or no profile row
LevelNumberOf(profiles, u) == GetOrCreate(profiles, u).current_level

\* C30: profile.current_level never decreases.  In every step the
\* level_number of each user's current_level stays or rises, and when it
\* changes the new level qualified for the total at the level check (the
\* stored total less the level bonus of new level_number * 100).
LevelNeverDecreases ==
    [][\A u \in Users :
          /\ LevelNumberOf(userProfiles', u) >= LevelNumberOf(userProfiles, u)
          /\ LevelNumberOf(userProfiles', u) # LevelNumberOf(userProfiles, u)
                => LevelPoints[LevelNumberOf(userProfiles', u)]
                      <= GetOrCreate(userProfiles', u).total_points
                           - LevelNumberOf(userProfiles', u) * 100]_vars


====
